---- MODULE Spec2Model ----
(***************************************************************************)
(* Model of opal_fetcher_stripe/provider.py: the tenacity retry policy     *)
(* RETRY_CONFIG, the StripeFetchProvider constructor writing the           *)
(* process-wide stripe client settings, _fetch_ (one list call inside a    *)
(* try/except chain) and _process_ (the per-record aggregation loop).      *)
(*                                                                         *)
(* Three specifications share the module's variables:                      *)
(*   SpecRetry    the retry policy run on an arbitrary operation           *)
(*   SpecFetch    two providers constructed and fetching, interleaved      *)
(*   SpecProcess  _process_ over every bounded record sequence             *)
(***************************************************************************)
EXTENDS Integers, Sequences, FiniteSets, TLC

VARIABLES
    \* ---- retry policy (tenacity retry_state) ----
    rpc,              \* "attempt" | "sleep" | "returned" | "raised"
    attempt_number,   \* retry_state.attempt_number
    calls,            \* invocations of the wrapped operation so far
    waits,            \* backoff waits taken so far
    outcome,          \* retry_state.outcome: [kind, attempt]
    raised,           \* what execute raised to its caller
    history,          \* kinds of the outcomes of all attempts, in order
    \* ---- stripe module globals and providers ----
    stripe,           \* [api_key, max_network_retries, enable_telemetry, log]
    prov,             \* provider -> [state, params, url]
    lastInit,         \* the provider whose __init__ ran last (0: none)
    fpc,              \* provider -> "idle" | "awaiting" | "done" | "raised"
    result,           \* provider -> what _fetch_ returned
    listCalls,        \* provider -> number of list calls issued
    listOutcome,      \* provider -> outcome of its list call
    callCtx,          \* provider -> client settings the list call was made with
    \* ---- _process_ ----
    records,          \* the argument of _process_
    idx,              \* loop position: records[1..idx] have been visited
    processed_records,\* the dict being built
    ppc,              \* "loop" | "returned" | "raised"
    perr,             \* the exception _process_ raised
    rule              \* the branch taken for the record visited last

retryVars == <<rpc, attempt_number, calls, waits, outcome, raised, history>>
fetchVars == <<stripe, prov, lastInit, fpc, result, listCalls, listOutcome, callCtx>>
procVars  == <<records, idx, processed_records, ppc, perr, rule>>
vars == <<retryVars, fetchVars, procVars>>

None == << >>
Some(v) == <<v>>

(***************************************************************************)
(* Exception classes: the part of Python's and stripe.error's hierarchy    *)
(* the except clauses and the retry predicate look at.                     *)
(***************************************************************************)
Parent(cls) ==
    CASE cls = "AuthenticationError" -> "StripeError"
      [] cls = "APIConnectionError"  -> "StripeError"
      [] cls = "StripeError"         -> "Exception"
      [] cls = "AttributeError"      -> "Exception"
      [] cls = "KeyError"            -> "Exception"
      [] cls = "RetryError"          -> "Exception"
      [] OTHER                       -> "BaseException"

IsInstance(kind, cls) ==
    \/ kind = cls
    \/ Parent(kind) = cls
    \/ Parent(Parent(kind)) = cls

(***************************************************************************)
(* RETRY_CONFIG, with tenacity's semantics for each of its four entries.   *)
(***************************************************************************)
MaxAttemptNumber == 10

\* What one invocation of the wrapped operation may do.
OpOutcomes == {"ok", "Exception", "StripeError", "AuthenticationError", "APIConnectionError"}

Failed(o) == o.kind # "ok"

RetryExactTypeOnly(o) == ~Failed(o) \/ o.kind # "StripeError"

\* "retry": retry_unless_exception_type(StripeError). tenacity retries when the
\* attempt raised nothing, and when it raised anything but a StripeError.
RetryPredicate(o) == ~Failed(o) \/ ~IsInstance(o.kind, "StripeError")

StopAfterOneMore(n) == n > MaxAttemptNumber

\* "stop": stop_after_attempt(10).
StopAfterAttempt(n) == n >= MaxAttemptNumber

NoOutcome == [kind |-> "none", attempt |-> 0]

InitRetry ==
    /\ rpc = "attempt"
    /\ attempt_number = 1
    /\ calls = 0
    /\ waits = 0
    /\ outcome = NoOutcome
    /\ raised = NoOutcome
    /\ history = << >>

\* One attempt: the operation is invoked and tenacity decides what follows.
\* "reraise": True re-raises the last attempt's own exception when the policy
\* stops; when the last attempt raised nothing it raises RetryError.
RetryAttempt(k) ==
    /\ rpc = "attempt"
    /\ LET o == [kind |-> k, attempt |-> attempt_number] IN
       /\ calls' = calls + 1
       /\ outcome' = o
       /\ history' = Append(history, k)
       /\ IF ~RetryPredicate(o)
          THEN IF Failed(o)
               THEN rpc' = "raised" /\ raised' = o
               ELSE rpc' = "returned" /\ raised' = raised
          ELSE IF StopAfterAttempt(attempt_number)
               THEN /\ rpc' = "raised"
                    /\ raised' = IF Failed(o) THEN o
                                 ELSE [kind |-> "RetryError", attempt |-> attempt_number]
               ELSE rpc' = "sleep" /\ raised' = raised
    /\ UNCHANGED <<attempt_number, waits>>
    /\ UNCHANGED <<fetchVars, procVars>>

\* "wait": wait_random_exponential(), then the next attempt.
RetryWait ==
    /\ rpc = "sleep"
    /\ rpc' = "attempt"
    /\ waits' = waits + 1
    /\ attempt_number' = attempt_number + 1
    /\ UNCHANGED <<calls, outcome, raised, history>>
    /\ UNCHANGED <<fetchVars, procVars>>

NextRetry ==
    \/ \E k \in OpOutcomes : RetryAttempt(k)
    \/ RetryWait

(***************************************************************************)
(* The stripe module's process-wide settings, StripeConnectionParams and   *)
(* StripeFetchProvider.__init__.                                           *)
(***************************************************************************)
Providers == {1, 2}

ApiKeys == {"sk_A", "sk_B"}

\* StripeConnectionParams; an optional field may be given as null.
ConnectionParams ==
    [api_key             : ApiKeys,
     max_network_retries : {None, Some(0), Some(2)},
     log_level           : {None, Some("info"), Some("debug")},
     enable_telemetry    : {None, Some(TRUE), Some(FALSE)}]

\* The stripe resources a url may name, and one name that is no resource.
Resources == {"Customer"}
Urls == Resources \cup {"NotARealResource"}

\* The fetch event: its url and its config (None: no config given).
Events == [url : Urls, config : {None} \cup {Some(cp) : cp \in ConnectionParams}]

\* The stripe library's settings before any provider is constructed.
StripeDefaults ==
    [api_key |-> None, max_network_retries |-> 0, enable_telemetry |-> TRUE, log |-> None]

NoParams == [api_key |-> "", max_network_retries |-> None, log_level |-> None,
             enable_telemetry |-> None]

\* Python truth of a value that is present.
TruthyInt(v) == v # 0
TruthyBool(v) == v
TruthyStr(v) == v # ""

\* __init__, lines 142-157: connection_params.dict(exclude_none=True) drops the
\* fields given as null, so reading one of them raises KeyError; the writes made
\* before it stay. Result: the settings afterwards and whether __init__ raised.
ConfigureStripe(s, cp) ==
    LET s1 == [s EXCEPT !.api_key = Some(cp.api_key)]
        s2 == IF cp.max_network_retries # None /\ TruthyInt(cp.max_network_retries[1])
              THEN [s1 EXCEPT !.max_network_retries = cp.max_network_retries[1]]
              ELSE s1
        s3 == IF cp.enable_telemetry # None /\ TruthyBool(cp.enable_telemetry[1])
              THEN [s2 EXCEPT !.enable_telemetry = cp.enable_telemetry[1]]
              ELSE s2
        s4 == IF cp.log_level # None /\ TruthyStr(cp.log_level[1])
              THEN [s3 EXCEPT !.log = cp.log_level]
              ELSE s3
    IN  IF cp.max_network_retries = None THEN [settings |-> s1, exc |-> "KeyError"]
        ELSE IF cp.enable_telemetry = None THEN [settings |-> s2, exc |-> "KeyError"]
        ELSE IF cp.log_level = None THEN [settings |-> s3, exc |-> "KeyError"]
        ELSE [settings |-> s4, exc |-> "none"]

\* StripeFetchProvider(event). With no config it logs and returns before
\* super().__init__, leaving a provider without _event and _url.
Construct(p, ev) ==
    /\ prov[p].state = "new"
    /\ lastInit' = p
    /\ IF ev.config = None
       THEN /\ prov' = [prov EXCEPT ![p] = [state |-> "incomplete", params |-> NoParams,
                                            url |-> ev.url]]
            /\ stripe' = stripe
       ELSE LET c == ConfigureStripe(stripe, ev.config[1]) IN
            /\ stripe' = c.settings
            /\ prov' = [prov EXCEPT ![p] =
                          [state  |-> IF c.exc = "none" THEN "ready" ELSE "init_raised",
                           params |-> ev.config[1],
                           url    |-> ev.url]]
    /\ UNCHANGED <<fpc, result, listCalls, listOutcome, callCtx>>
    /\ UNCHANGED <<retryVars, procVars>>

(***************************************************************************)
(* _fetch_: one list call inside try/except.                               *)
(***************************************************************************)
MaxData == 2
RecordIds == {"rec_1", "rec_2"}
DataLists == UNION {[1..n -> RecordIds] : n \in 0..MaxData}

\* What the awaited list call may do: a response, or one of the client's errors.
ListErrors == {"AuthenticationError", "APIConnectionError", "StripeError", "Exception"}
ListOutcomes ==
    {[kind |-> "ok", data |-> d] : d \in DataLists}
        \cup {[kind |-> e, data |-> << >>] : e \in ListErrors}

NoListOutcome == [kind |-> "none", data |-> << >>]

ExceptClausesNoCatchAll(kind) ==
    IF IsInstance(kind, "AttributeError") THEN "AttributeError"
    ELSE IF IsInstance(kind, "AuthenticationError") THEN "AuthenticationError"
    ELSE IF IsInstance(kind, "APIConnectionError") THEN "APIConnectionError"
    ELSE "propagate"

\* Lines 179-186: the except clause that catches an exception of class kind.
ExceptClauses(kind) ==
    IF IsInstance(kind, "AttributeError") THEN "AttributeError"
    ELSE IF IsInstance(kind, "AuthenticationError") THEN "AuthenticationError"
    ELSE IF IsInstance(kind, "APIConnectionError") THEN "APIConnectionError"
    ELSE IF IsInstance(kind, "Exception") THEN "Exception"
    ELSE "propagate"

\* _fetch_ up to its await: lines 169-177. A provider built without config has
\* no _url: line 171 raises AttributeError outside the try. getattr(stripe, url)
\* raises AttributeError, inside the try, for a name that is no resource.
\* Otherwise the list call is issued, with the settings the stripe module holds
\* at that moment.
FetchStart(p) ==
    /\ prov[p].state \in {"ready", "incomplete"}
    /\ fpc[p] = "idle"
    /\ IF prov[p].state = "incomplete"
       THEN /\ fpc' = [fpc EXCEPT ![p] = "raised"]
            /\ UNCHANGED <<result, listCalls, callCtx>>
       ELSE IF prov[p].url \notin Resources
       THEN /\ fpc' = [fpc EXCEPT ![p] =
                         IF ExceptClauses("AttributeError") = "propagate"
                         THEN "raised" ELSE "done"]
            /\ result' = [result EXCEPT ![p] = << >>]
            /\ UNCHANGED <<listCalls, callCtx>>
       ELSE /\ fpc' = [fpc EXCEPT ![p] = "awaiting"]
            /\ listCalls' = [listCalls EXCEPT ![p] = @ + 1]
            /\ callCtx' = [callCtx EXCEPT ![p] = stripe]
            /\ result' = [result EXCEPT ![p] = << >>]
    /\ UNCHANGED <<stripe, prov, lastInit, listOutcome>>
    /\ UNCHANGED <<retryVars, procVars>>

\* _fetch_ from the await on: lines 177-188.
FetchResume(p, o) ==
    /\ fpc[p] = "awaiting"
    /\ listOutcome' = [listOutcome EXCEPT ![p] = o]
    /\ IF o.kind = "ok"
       THEN /\ result' = [result EXCEPT ![p] = o.data]
            /\ fpc' = [fpc EXCEPT ![p] = "done"]
       ELSE /\ result' = result
            /\ fpc' = [fpc EXCEPT ![p] =
                         IF ExceptClauses(o.kind) = "propagate" THEN "raised" ELSE "done"]
    /\ UNCHANGED <<stripe, prov, lastInit, listCalls, callCtx>>
    /\ UNCHANGED <<retryVars, procVars>>

InitFetch ==
    /\ stripe = StripeDefaults
    /\ prov = [p \in Providers |-> [state |-> "new", params |-> NoParams, url |-> ""]]
    /\ lastInit = 0
    /\ fpc = [p \in Providers |-> "idle"]
    /\ result = [p \in Providers |-> << >>]
    /\ listCalls = [p \in Providers |-> 0]
    /\ listOutcome = [p \in Providers |-> NoListOutcome]
    /\ callCtx = [p \in Providers |-> StripeDefaults]

NextFetch ==
    \/ \E p \in Providers, ev \in Events : Construct(p, ev)
    \/ \E p \in Providers : FetchStart(p)
    \/ \E p \in Providers, o \in ListOutcomes : FetchResume(p, o)

InitProcessIdle ==
    /\ records = << >>
    /\ idx = 0
    /\ processed_records = << >>
    /\ ppc = "returned"
    /\ perr = "none"
    /\ rule = "none"

InitRetryIdle ==
    /\ rpc = "returned"
    /\ attempt_number = 1
    /\ calls = 0
    /\ waits = 0
    /\ outcome = NoOutcome
    /\ raised = NoOutcome
    /\ history = << >>

InitFetchIdle ==
    /\ stripe = StripeDefaults
    /\ prov = [p \in Providers |-> [state |-> "init_raised", params |-> NoParams, url |-> ""]]
    /\ lastInit = 0
    /\ fpc = [p \in Providers |-> "idle"]
    /\ result = [p \in Providers |-> << >>]
    /\ listCalls = [p \in Providers |-> 0]
    /\ listOutcome = [p \in Providers |-> NoListOutcome]
    /\ callCtx = [p \in Providers |-> StripeDefaults]

RetryOnly == InitRetry /\ InitFetchIdle /\ InitProcessIdle

SpecRetry == RetryOnly /\ [][NextRetry]_vars

FetchOnly == InitFetch /\ InitRetryIdle /\ InitProcessIdle

SpecFetch == FetchOnly /\ [][NextFetch]_vars

(***************************************************************************)
(* _process_ and its helpers. The strings the code searches with `in`      *)
(* (record["object"], record["status"]) are sequences of characters.       *)
(***************************************************************************)
s_customer == <<"c", "u", "s", "t", "o", "m", "e", "r">>
s_invoice == <<"i", "n", "v", "o", "i", "c", "e">>
s_subscription == <<"s", "u", "b", "s", "c", "r", "i", "p", "t", "i", "o", "n">>
s_payment_intent == <<"p", "a", "y", "m", "e", "n", "t", "_", "i", "n", "t", "e", "n", "t">>
s_charge_refund == <<"c", "h", "a", "r", "g", "e", ".", "r", "e", "f", "u", "n", "d">>
s_Invoice == <<"I", "n", "v", "o", "i", "c", "e">>
s_subscription_invoice == <<"s", "u", "b", "s", "c", "r", "i", "p", "t", "i", "o", "n", "_", "i", "n", "v", "o", "i", "c", "e">>
s_paid == <<"p", "a", "i", "d">>
s_open == <<"o", "p", "e", "n">>
s_unpaid == <<"u", "n", "p", "a", "i", "d">>
s_active == <<"a", "c", "t", "i", "v", "e">>
s_canceled == <<"c", "a", "n", "c", "e", "l", "e", "d">>
s_succeeded == <<"s", "u", "c", "c", "e", "e", "d", "e", "d">>

\* Python's `needle in hay` on strings: needle occurs as a contiguous substring.
Contains(needle, hay) ==
    \E i \in 0..(Len(hay) - Len(needle)) : SubSeq(hay, i + 1, i + Len(needle)) = needle

\* Invoice line-item lists.
Line(product, amount, description) ==
    [product |-> product, type |-> "invoiceitem", amount |-> amount,
     description |-> description]
Lines1 == <<Line("prod_1", 500, "Widget")>>
Lines2 == <<Line("prod_2", 700, "Gadget"), Line("prod_2", 900, "Gadget XL")>>

Rec(object, id, email, customer, status, lines) ==
    [object |-> object, id |-> id, email |-> email, customer |-> customer,
     status |-> status, lines |-> lines]

\* The records a list response may hold.
RawRecords ==
    { Rec(s_customer, "cus_1", "a@x.com", "", << >>, << >>),
      Rec(s_customer, "cus_2", "b@x.com", "", << >>, << >>),
      Rec(s_invoice, "in_1", "", "cus_1", s_paid, Lines1),
      Rec(s_invoice, "in_2", "", "cus_1", s_paid, Lines2),
      Rec(s_invoice, "in_3", "", "cus_1", s_open, Lines1),
      Rec(s_invoice, "in_4", "", "cus_1", s_unpaid, Lines1),
      Rec(s_invoice, "in_5", "", "cus_2", s_paid, Lines1),
      Rec(s_Invoice, "in_6", "", "cus_1", s_paid, Lines1),
      Rec(s_subscription_invoice, "in_7", "", "cus_1", s_paid, Lines1),
      Rec(s_subscription, "sub_1", "", "cus_1", s_active, << >>),
      Rec(s_subscription, "sub_2", "", "cus_1", s_active, << >>),
      Rec(s_subscription, "sub_3", "", "cus_1", s_canceled, << >>),
      Rec(s_payment_intent, "pi_1", "", "cus_1", s_succeeded, << >>),
      Rec(s_payment_intent, "pi_2", "", "cus_1", s_succeeded, << >>),
      Rec(s_payment_intent, "pi_3", "", "cus_1", s_canceled, << >>),
      Rec(s_charge_refund, "re_1", "", "cus_1", s_succeeded, << >>) }

MaxRecords == 3
RecordLists == UNION {[1..n -> RawRecords] : n \in 0..MaxRecords}

\* d[k] = v on a Python dict.
Put(d, k, v) == (k :> v) @@ d

RECURSIVE ParseLinesFrom(_, _, _)
ParseLinesFrom(lines, i, acc) ==
    IF i > Len(lines) THEN acc
    ELSE ParseLinesFrom(lines, i + 1,
            Put(acc, lines[i].product,
                [type |-> lines[i].type, amount |-> lines[i].amount,
                 description |-> lines[i].description]))

\* parse_invoice_lines: product id -> {type, amount, description}, a later line
\* of the same product replacing an earlier one.
parse_invoice_lines(lines) == ParseLinesFrom(lines, 1, << >>)

\* data = {record["id"]: record["status"]} when no data is passed.
DefaultData(record) == record.id :> record.status

\* update_customer_record. Every value stored under a record_type is a dict
\* (parse_invoice_lines' result or DefaultData), and a dict has no extend: for
\* a customer already present the statement raises KeyError when the entry has
\* no such record_type and AttributeError when it has.
update_customer_record(customers, record, record_type, data) ==
    LET customer == record.customer IN
    IF customer \in DOMAIN customers
    THEN IF record_type \notin DOMAIN customers[customer]
         THEN [customers |-> customers, exc |-> "KeyError"]
         ELSE [customers |-> customers, exc |-> "AttributeError"]
    ELSE [customers |-> Put(customers, customer, record_type :> data), exc |-> "none"]

StatusAlwaysPasses(keyword, status) == TRUE

\* `keyword not in record["status"]` -> continue.
StatusPasses(keyword, status) == Contains(keyword, status)

DispatchSubscriptionFirst(object) ==
    IF Contains(s_customer, object) THEN "customer"
    ELSE IF Contains(s_subscription, object) THEN "subscription"
    ELSE IF Contains(s_invoice, object) THEN "invoice"
    ELSE IF Contains(s_payment_intent, object) THEN "payment_intent"
    ELSE "none"

\* The if/elif chain on record["object"], lines 232-256.
Dispatch(object) ==
    IF Contains(s_customer, object) THEN "customer"
    ELSE IF Contains(s_invoice, object) THEN "invoice"
    ELSE IF Contains(s_subscription, object) THEN "subscription"
    ELSE IF Contains(s_payment_intent, object) THEN "payment_intent"
    ELSE "none"

\* What one loop iteration does with a record: the dict afterwards and the
\* exception raised, if any.
ProcessOne(customers, record) ==
    LET r == Dispatch(record.object) IN
    IF r = "customer"
    THEN [customers |-> Put(customers, record.email, "id" :> record.id), exc |-> "none"]
    ELSE IF r = "invoice"
    THEN IF ~StatusPasses(s_paid, record.status)
         THEN [customers |-> customers, exc |-> "none"]
         ELSE update_customer_record(customers, record, "products",
                                     parse_invoice_lines(record.lines))
    ELSE IF r = "subscription"
    THEN IF ~StatusPasses(s_active, record.status)
         THEN [customers |-> customers, exc |-> "none"]
         ELSE update_customer_record(customers, record, "subscriptions",
                                     DefaultData(record))
    ELSE IF r = "payment_intent"
    THEN IF ~StatusPasses(s_succeeded, record.status)
         THEN [customers |-> customers, exc |-> "none"]
         ELSE update_customer_record(customers, record, "payments",
                                     DefaultData(record))
    ELSE [customers |-> customers, exc |-> "none"]

InitProcess ==
    /\ records \in RecordLists
    /\ idx = 0
    /\ processed_records = << >>
    /\ ppc = "loop"
    /\ perr = "none"
    /\ rule = "none"

\* One iteration of `for record in records`.
ProcessRecord ==
    /\ ppc = "loop"
    /\ idx < Len(records)
    /\ LET record == records[idx + 1]
           out == ProcessOne(processed_records, record)
       IN /\ idx' = idx + 1
          /\ rule' = Dispatch(record.object)
          /\ processed_records' = out.customers
          /\ perr' = out.exc
          /\ ppc' = IF out.exc = "none" THEN "loop" ELSE "raised"
    /\ UNCHANGED records
    /\ UNCHANGED <<retryVars, fetchVars>>

\* return processed_records
ProcessReturn ==
    /\ ppc = "loop"
    /\ idx = Len(records)
    /\ ppc' = "returned"
    /\ UNCHANGED <<records, idx, processed_records, perr, rule>>
    /\ UNCHANGED <<retryVars, fetchVars>>

NextProcess ==
    \/ ProcessRecord
    \/ ProcessReturn

ProcessOnly == InitProcess /\ InitRetryIdle /\ InitFetchIdle

SpecProcess == ProcessOnly /\ [][NextProcess]_vars

(***************************************************************************)
(* Properties of the retry policy (SpecRetry).                             *)
(***************************************************************************)
Retryable(k) == k \notin {"ok", "none"} /\ ~IsInstance(k, "StripeError")

AllRetryable(h) == \A i \in 1..Len(h) : Retryable(h[i])

\* C2: an operation that raises a retryable error on every attempt is invoked
\* exactly MaxAttemptNumber (10) times; the policy then raises the error of the
\* 10th attempt itself, and the operation is never invoked an 11th time.
RetryExhaustionAfterTen ==
    (Len(history) > 0 /\ AllRetryable(history)) =>
        /\ calls = Len(history)
        /\ calls <= MaxAttemptNumber
        /\ rpc # "returned"
        /\ (calls < MaxAttemptNumber => rpc \in {"sleep", "attempt"})
        /\ (calls = MaxAttemptNumber =>
               /\ rpc = "raised"
               /\ raised = [kind |-> history[MaxAttemptNumber], attempt |-> MaxAttemptNumber])

\* C2 happens: ten attempts, each raising a generic Exception, then the raise.
RetryExhaustionReached ==
    /\ rpc = "raised"
    /\ calls = MaxAttemptNumber
    /\ AllRetryable(history)
    /\ raised.kind = "Exception"

\* C3: when the first attempt raises StripeError or a subclass of it, the
\* operation is invoked exactly once, no backoff wait is taken and that error
\* is raised to the caller.
StripeErrorShortCircuits ==
    (Len(history) > 0 /\ IsInstance(history[1], "StripeError")) =>
        /\ calls = 1
        /\ waits = 0
        /\ rpc = "raised"
        /\ raised = [kind |-> history[1], attempt |-> 1]

\* C3 happens: a single attempt raising AuthenticationError, raised at once.
AuthErrorRaisedAtOnce ==
    /\ history = <<"AuthenticationError">>
    /\ rpc = "raised"
    /\ calls = 1

(***************************************************************************)
(* Properties of construction and _fetch_ (SpecFetch).                     *)
(***************************************************************************)
\* C1: for a provider constructed from a config, whatever the resource name
\* and whatever the list call does, _fetch_ raises nothing; it returns the
\* response's records when the list call succeeded and the empty list
\* otherwise.
FetchNeverRaises ==
    \A p \in Providers :
        prov[p].state = "ready" =>
            /\ fpc[p] # "raised"
            /\ fpc[p] = "done" =>
                  result[p] = IF listOutcome[p].kind = "ok" THEN listOutcome[p].data
                              ELSE << >>

\* C1 happens: a list call raised a generic Exception and _fetch_ returned [].
FetchDowngradedError ==
    \E p \in Providers :
        /\ fpc[p] = "done"
        /\ listOutcome[p].kind = "Exception"
        /\ result[p] = << >>

\* C4: when the list call raised a generic error and _fetch_ returned the empty
\* list, the list call had been attempted MaxAttemptNumber (10) times.
FetchRetriesListCall ==
    \A p \in Providers :
        (fpc[p] = "done" /\ listOutcome[p].kind = "Exception") =>
            listCalls[p] = MaxAttemptNumber

\* C9: every list call a provider issues is made with that provider's own api
\* key, never with the key written by the other provider's construction.
CyclesShareNoState ==
    \A p \in Providers :
        listCalls[p] > 0 => callCtx[p].api_key = Some(prov[p].params.api_key)

\* C10: after a provider is constructed from connection parameters P, the
\* client's api key, network retry count, telemetry flag and log level equal
\* the values given in P.
ConstructionAppliesParams ==
    (lastInit # 0 /\ prov[lastInit].state = "ready") =>
        LET P == prov[lastInit].params IN
        /\ stripe.api_key = Some(P.api_key)
        /\ stripe.max_network_retries = P.max_network_retries[1]
        /\ stripe.enable_telemetry = P.enable_telemetry[1]
        /\ stripe.log = P.log_level

(***************************************************************************)
(* Properties of _process_ (SpecProcess).                                  *)
(***************************************************************************)
SubCollection(k) ==
    CASE k = "invoice" -> "products"
      [] k = "subscription" -> "subscriptions"
      [] k = "payment_intent" -> "payments"
      [] OTHER -> ""

Keyword(k) ==
    CASE k = "invoice" -> s_paid
      [] k = "subscription" -> s_active
      [] k = "payment_intent" -> s_succeeded
      [] OTHER -> << >>

FilteredKinds == {"invoice", "subscription", "payment_intent"}

\* What a qualifying record contributes to its customer's sub-collection.
Contribution(r) ==
    IF Dispatch(r.object) = "invoice" THEN parse_invoice_lines(r.lines)
    ELSE DefaultData(r)

\* A paid invoice, an active subscription or a succeeded payment.
Qualifies(r) ==
    /\ Dispatch(r.object) \in FilteredKinds
    /\ Contains(Keyword(Dispatch(r.object)), r.status)

Visiting == ppc = "loop" /\ idx < Len(records)

\* C5: when _process_ handles a qualifying record of kind K for a customer that
\* already has a K sub-collection, it raises nothing and the sub-collection
\* afterwards holds every entry it held before and the record's contribution.
MergeAccumulates ==
    [][ LET r == records[idx + 1]
            K == SubCollection(Dispatch(r.object))
        IN  ( /\ Visiting
              /\ Qualifies(r)
              /\ r.customer \in DOMAIN processed_records
              /\ K \in DOMAIN processed_records[r.customer] )
            => /\ ppc' = "loop"
               /\ \A e \in DOMAIN processed_records[r.customer][K] :
                     e \in DOMAIN processed_records'[r.customer][K]
               /\ \A e \in DOMAIN Contribution(r) :
                     e \in DOMAIN processed_records'[r.customer][K]
      ]_vars

\* The kinds of the qualifying records a customer has in the input.
KindsOf(c) ==
    {Dispatch(records[i].object) :
        i \in {j \in 1..Len(records) : Qualifies(records[j]) /\ records[j].customer = c}}

\* The customer has qualifying records of several kinds, one of each.
MixedKinds(c) ==
    /\ Cardinality(KindsOf(c)) >= 2
    /\ \A i, j \in 1..Len(records) :
          ( /\ i # j
            /\ Qualifies(records[i]) /\ Qualifies(records[j])
            /\ records[i].customer = c /\ records[j].customer = c )
          => Dispatch(records[i].object) # Dispatch(records[j].object)

\* C6: when a customer has qualifying records of different kinds, _process_
\* returns without error and the customer's entry holds one sub-collection per
\* kind, side by side, each with that record's contribution.
MixedKindsSideBySide ==
    \A c \in {"cus_1", "cus_2"} :
        (ppc \in {"returned", "raised"} /\ MixedKinds(c)) =>
            /\ ppc = "returned"
            /\ c \in DOMAIN processed_records
            /\ \A i \in 1..Len(records) :
                  (Qualifies(records[i]) /\ records[i].customer = c) =>
                      LET K == SubCollection(Dispatch(records[i].object)) IN
                      /\ K \in DOMAIN processed_records[c]
                      /\ processed_records[c][K] = Contribution(records[i])

\* A sub-collection K of customer c is the contribution of a visited record of
\* kind k whose status passes test(keyword, status).
ComesFrom(c, k, test(_, _)) ==
    \E i \in 1..idx :
        /\ Dispatch(records[i].object) = k
        /\ records[i].customer = c
        /\ test(Keyword(k), records[i].status)
        /\ processed_records[c][SubCollection(k)] = Contribution(records[i])

StatusIs(keyword, status) == status = keyword

\* C7 as claimed: every products entry comes from an invoice whose status is
\* paid, every subscriptions entry from a subscription whose status is active,
\* every payments entry from a payment whose status is succeeded.
OnlyExactStatusContributes ==
    \A c \in DOMAIN processed_records :
        \A k \in FilteredKinds :
            SubCollection(k) \in DOMAIN processed_records[c] => ComesFrom(c, k, StatusIs)

OnlyMatchingStatusContributes ==
    \A c \in DOMAIN processed_records :
        \A k \in FilteredKinds :
            SubCollection(k) \in DOMAIN processed_records[c] => ComesFrom(c, k, Contains)

NonMatchingStatusSkipped ==
    LET r == records[idx + 1]
        k == Dispatch(r.object)
    IN  (Visiting /\ k \in FilteredKinds /\ ~Contains(Keyword(k), r.status))
        => /\ processed_records' = processed_records
           /\ ppc' = "loop"

\* C7 as amended: every products / subscriptions / payments entry comes from an
\* invoice / subscription / payment record whose status contains the substring
\* paid / active / succeeded, and a record of these kinds whose status does not
\* contain it is skipped, leaving the aggregate as it was.
StatusFilterBySubstring ==
    /\ []OnlyMatchingStatusContributes
    /\ [][NonMatchingStatusSkipped]_vars

\* C7 happens: a paid invoice has contributed products and an open invoice of
\* the same customer has then been skipped.
StatusFilterApplied ==
    /\ idx = 2
    /\ ppc = "loop"
    /\ Dispatch(records[1].object) = "invoice" /\ records[1].status = s_paid
    /\ Dispatch(records[2].object) = "invoice" /\ records[2].status = s_open
    /\ records[1].customer = records[2].customer
    /\ processed_records[records[1].customer]["products"]
           = parse_invoice_lines(records[1].lines)

KindNames == <<s_customer, s_invoice, s_subscription, s_payment_intent>>
RuleNames == <<"customer", "invoice", "subscription", "payment_intent">>

\* The first rule, in priority order, whose kind name occurs in the string.
PriorityRule(object) ==
    LET m == {i \in 1..Len(KindNames) : Contains(KindNames[i], object)} IN
    IF m = {} THEN "none"
    ELSE RuleNames[CHOOSE i \in m : \A j \in m : i <= j]

LowerChar(ch) ==
    CASE ch = "I" -> "i"
      [] ch = "C" -> "c"
      [] ch = "S" -> "s"
      [] ch = "P" -> "p"
      [] OTHER -> ch

\* str.lower() on the characters the record kinds use.
Lower(str) == [i \in 1..Len(str) |-> LowerChar(str[i])]

\* One loop iteration applies the rule chosen by fold(record["object"]): the
\* branch taken, and what that branch does to a customer not seen before.
AppliesRuleOf(fold(_)) ==
    LET r == records[idx + 1]
        k == PriorityRule(fold(r.object))
    IN  Visiting =>
        /\ rule' = k
        /\ k = "none" => (processed_records' = processed_records /\ ppc' = "loop")
        /\ k = "customer" =>
              /\ DOMAIN processed_records'[r.email] = {"id"}
              /\ processed_records'[r.email]["id"] = r.id
        /\ (k \in FilteredKinds /\ Contains(Keyword(k), r.status)
                /\ r.customer \notin DOMAIN processed_records) =>
              DOMAIN processed_records'[r.customer] = {SubCollection(k)}

AsIs(str) == str

\* C8 as claimed: each record gets exactly the first rule, in the order
\* customer, invoice, subscription, payment, whose kind name its object
\* contains under case-insensitive matching; a record matching none is skipped.
DispatchCaseInsensitive == [][AppliesRuleOf(Lower)]_vars

\* C8 as amended: the same, with the kind names customer, invoice,
\* subscription, payment_intent matched as case-sensitive substrings.
DispatchCaseSensitive == [][AppliesRuleOf(AsIs)]_vars

\* C8 happens: a record whose object contains both subscription and invoice
\* took the invoice branch and contributed products.
DispatchedByPriority ==
    /\ idx > 0
    /\ records[idx].object = s_subscription_invoice
    /\ rule = "invoice"
    /\ ppc = "loop"
    /\ "products" \in DOMAIN processed_records[records[idx].customer]

====
